---- MODULE Spec2Model ----
(***************************************************************************)
(* Personal-Knowledge-Assistant: the conversation agent                    *)
(* (src/src/conversation_graph.py, src/src/rag_processor.py,               *)
(* src/src/retriever.py), the GitHub corpus synchronisation                *)
(* (src/src/github_sync.py, src/src/knowledge_base.py), the vector store   *)
(* (src/src/embeddings.py, src/src/document_loader.py, src/main.py,        *)
(* src/src/components/vector_store_manager.py) and the chat page           *)
(* (src/app.py).                                                           *)
(*                                                                         *)
(* Optional values (Python None / a value) are sequences of length <= 1:   *)
(* <<>> is None, <<v>> is the value v.  Texts are strings; where the code  *)
(* inspects the characters of a text (the regular expression of            *)
(* retrieve_context, the phrase tests of should_end) the model does so on  *)
(* the text's characters, Chars(t).                                        *)
(***************************************************************************)
EXTENDS Integers, Sequences, FiniteSets, TLC

VARIABLES
    conversation_state, \* ConversationAgent.conversation_state
    state,              \* the ConversationState travelling through the graph
    pc,                 \* where the current process_message call is
    retval,             \* what the last process_message call returned
    userText,           \* the argument of the current / last call
    turns,              \* process_message calls so far (counted up to TurnCap)
    firstTurn,          \* the first call's text and extracted name (kept for the second call)
    retrieveVisits,     \* entries of the retrieve node in this call
    vsCalls,            \* similarity_search calls in this call
    searchRaised,       \* a similarity_search call of this call raised
    ctxGot,             \* what get_relevant_context returned in this call
    extracted,          \* the name the extraction reply of the first call carried
    appended            \* the assistant texts generate_response appended in this call

convVars == <<conversation_state, state, pc, retval, userText, turns, firstTurn,
              retrieveVisits, vsCalls, searchRaised, ctxGot,
              extracted, appended>>

VARIABLES
    upstream,       \* the repository on GitHub: its head commit and its files
    mirror,         \* the local clone under github_repos/<repo_name>
    tracking_file,  \* github_repos/<repo_name>_tracking.json
    tracking_data,  \* tracking_data of the GitHubSyncManager of the last sync
    vector_store,   \* the chunks in the vector store
    timestamps,     \* datetime.now() readings so far
    sync_result,    \* what the last sync_github_knowledge_base call did and returned
    preTracking,    \* tracking_file as it was when the last sync started
    syncsSinceChange, \* sync calls since the last upstream change (counted up to 2)
    prevFetched     \* the clone / pull of the sync call before the last one succeeded

syncVars == <<upstream, mirror, tracking_file, tracking_data, vector_store,
              timestamps, sync_result, preTracking, syncsSinceChange, prevFetched>>

VARIABLES
    vs_path_exists, \* the vector store directory vector_store/index exists
    next_id,        \* identifiers the vector store has issued so far, plus one
    store_result    \* what the last operation on the vector store did and returned

storeVars == <<vs_path_exists, next_id, store_result>>

VARIABLES
    session_messages, \* st.session_state.messages: the displayed chat history
    processing,       \* st.session_state.processing
    session_question, \* st.session_state.current_question
    app_pc,           \* where the chat page is: at the form, about to call the agent, in the call
    errors_shown,     \* the texts st.error displayed in the last turn
    turn_outcome,     \* how the last turn of the chat page ended
    thinking          \* st.session_state.thinking

appVars == <<session_messages, processing, session_question, app_pc, errors_shown,
             turn_outcome, thinking>>

VARIABLES
    node_in,    \* the ConversationState a node function was applied to
    node_run    \* the node function applied last, what it was given and what it did

nodeVars == <<node_in, node_run>>

VARIABLES
    remotes,        \* the repositories on GitHub: revisions pushed to each branch
    mirrors,        \* the directories under github_repos: the clone in each, if any
    tracking_files, \* the <repo_name>_tracking.json files under github_repos
    repo_sync       \* the last sync_repository call on them: its manager and what it did

repoVars == <<remotes, mirrors, tracking_files, repo_sync>>

vars == <<convVars, syncVars, storeVars, appVars, nodeVars, repoVars>>

---------------------------------------------------------------------------
(* Bounds and program constants *)

\* turns are counted up to this number; later calls leave the counter there
TurnCap == 11
\* the graph is stopped after this many entries of one node in one call
VisitCap == 3
\* upstream commits after the first one
MaxCommits == 2
\* prune_messages(..., max_messages=10)
MaxMessages == 10

---------------------------------------------------------------------------
(* Texts *)

\* the user's texts: those of an agent's first call, of its second call, and of
\* its later calls
FirstTexts == {"My name is Alex", "what's my name", ""}
SecondTexts == {"What is my name?", "what's my name"}
LaterTexts == {"what's my name"}
\* the texts the call after n calls is given
TextsAfter(n) == IF n = 0 THEN FirstTexts ELSE IF n = 1 THEN SecondTexts ELSE LaterTexts
\* the answers of the language model: in the first call, and in later calls
FirstReplies == {"Nice to meet you!", "Goodbye!"}
LaterReplies == {"Nice to meet you!"}
\* page_content of the chunks similarity_search returns, in rank order
SearchResults == {<<>>, <<"doc one">>, <<"doc two", "doc one">>}

Chars(t) ==
    CASE t = "My name is Alex" ->
           <<"M", "y", " ", "n", "a", "m", "e", " ", "i", "s", " ", "A", "l", "e", "x">>
      [] t = "What is my name?" ->
           <<"W", "h", "a", "t", " ", "i", "s", " ", "m", "y", " ", "n", "a", "m", "e", "?">>
      [] t = "what's my name" ->
           <<"w", "h", "a", "t", "'", "s", " ", "m", "y", " ", "n", "a", "m", "e">>
      [] t = "Nice to meet you!" ->
           <<"N", "i", "c", "e", " ", "t", "o", " ", "m", "e", "e", "t", " ", "y", "o", "u", "!">>
      [] t = "Goodbye!" ->
           <<"G", "o", "o", "d", "b", "y", "e", "!">>
      [] t = "" -> <<>>

UpperCase == <<"A", "B", "C", "D", "E", "F", "G", "H", "I", "J", "K", "L", "M",
               "N", "O", "P", "Q", "R", "S", "T", "U", "V", "W", "X", "Y", "Z">>
LowerCase == <<"a", "b", "c", "d", "e", "f", "g", "h", "i", "j", "k", "l", "m",
               "n", "o", "p", "q", "r", "s", "t", "u", "v", "w", "x", "y", "z">>

\* str.lower() / re.IGNORECASE on one character
Lower(c) ==
    IF \E i \in 1..26 : UpperCase[i] = c
    THEN LowerCase[CHOOSE i \in 1..26 : UpperCase[i] = c]
    ELSE c

\* the lower-case literal lit occurs in s at position i, ignoring case
MatchAt(s, i, lit) ==
    /\ i + Len(lit) - 1 <= Len(s)
    /\ \A j \in 1..Len(lit) : Lower(s[i + j - 1]) = lit[j]

\* lit in s.lower()  /  re.search(lit, s, re.IGNORECASE)
Contains(s, lit) == \E i \in 1..(Len(s) + 1) : MatchAt(s, i, lit)

\* x?  in a regular expression: the character or nothing
Opt(c) == {<<>>, <<c>>}

\* re.compile(r"(what'?s? my name|who am i)", re.IGNORECASE)
personal_info_pattern ==
    { <<"w", "h", "a", "t">> \o a \o b \o <<" ", "m", "y", " ", "n", "a", "m", "e">> :
        a \in Opt("'"), b \in Opt("s") }
    \cup { <<"w", "h", "o", " ", "a", "m", " ", "i">> }

\* personal_info_pattern.search(question)
PatternSearch(question) ==
    \E lit \in personal_info_pattern : Contains(Chars(question), lit)

\* the phrases of should_end's first test
EndingPhrases ==
    { <<"g", "o", "o", "d", "b", "y", "e">>,
      <<"f", "a", "r", "e", "w", "e", "l", "l">>,
      <<"h", "a", "v", "e", " ", "a", " ", "n", "i", "c", "e", " ", "d", "a", "y">>,
      <<"h", "a", "v", "e", " ", "a", " ", "g", "r", "e", "a", "t", " ", "d", "a", "y">> }

---------------------------------------------------------------------------
(* Values *)

None == <<>>
Some(v) == <<v>>
\* Python truthiness of an optional text: not None and not ""
Truthy(o) == o # <<>> /\ o[1] # ""

HumanMessage(content) == [type |-> "human", content |-> content]
AIMessage(content) == [type |-> "ai", content |-> content]

EmptyMemory == [name |-> None, other_info |-> None]

\* ConversationAgent.__init__
InitialState ==
    [messages |-> <<>>, context |-> None, current_question |-> None,
     completed |-> TRUE, memory |-> EmptyMemory]

---------------------------------------------------------------------------
(* The retriever and the RAG processor *)

\* a join that ends every text with the separator
RECURSIVE JoinBlankTrailing(_)
JoinBlankTrailing(texts) ==
    IF texts = <<>> THEN ""
    ELSE texts[1] \o "\n\n" \o JoinBlankTrailing(Tail(texts))

\* "\n\n".join(texts)
RECURSIVE JoinBlank(_)
JoinBlank(texts) ==
    IF texts = <<>> THEN ""
    ELSE IF Len(texts) = 1 THEN texts[1]
    ELSE texts[1] \o "\n\n" \o JoinBlank(Tail(texts))

\* what vector_store.similarity_search does: it raises, or returns chunks
SearchOutcomes ==
    {[raises |-> TRUE, docs |-> <<>>]}
    \cup {[raises |-> FALSE, docs |-> d] : d \in SearchResults}

\* KnowledgeRetriever.retrieve: the chunks, or [] when the search raises
retrieve(so) == IF so.raises THEN <<>> ELSE so.docs

\* KnowledgeRetriever.get_relevant_context
get_relevant_context(so) == JoinBlank(retrieve(so))

---------------------------------------------------------------------------
(* The memory extractor *)

\* a field of the parsed extraction reply: JSON null / missing (None) or a string
NameFields == {None, Some("null"), Some("None"), Some("Alex")}
InfoFields == {None, Some("likes tea")}

\* what the extraction call does: it raises, its reply holds no {...} block,
\* the block is not JSON, or the block parses to the two fields
ExtractionOutcomes ==
    {[kind |-> k, name |-> None, other_info |-> None] : k \in {"raise", "nojson", "badjson"}}
    \cup {[kind |-> "json", name |-> n, other_info |-> o] : n \in NameFields, o \in InfoFields}

\* extracted_info.get(key) and extracted_info[key] != "null"
Overwrites(field) == Truthy(field) /\ field[1] # "null"

\* an extraction that forgets the memory when the reply cannot be used
extract_personal_info_resetting(memory, er) ==
    IF er.kind = "json"
    THEN [name       |-> IF Overwrites(er.name) THEN er.name ELSE memory.name,
          other_info |-> IF Overwrites(er.other_info) THEN er.other_info
                         ELSE memory.other_info]
    ELSE EmptyMemory

extract_personal_info(memory, er) ==
    IF er.kind = "json"
    THEN [name       |-> IF Overwrites(er.name) THEN er.name ELSE memory.name,
          other_info |-> IF Overwrites(er.other_info) THEN er.other_info
                         ELSE memory.other_info]
    ELSE memory

---------------------------------------------------------------------------
(* The nodes of the graph *)

\* f"Personal information: The user's name is {memory['name']}."
SynthesizedContext(name) ==
    "Personal information: The user's name is " \o name \o "."

\* retrieve_context answers from memory, without the RAG processor
ShortCircuits(s) ==
    /\ Truthy(s.current_question)
    /\ PatternSearch(s.current_question[1])
    /\ s.memory.name # None

\* a retrieve_context that ends the turn when it answers from memory
retrieve_context_completing(s, ragContext) ==
    IF ~Truthy(s.current_question) THEN [s EXCEPT !.completed = TRUE]
    ELSE IF ShortCircuits(s)
         THEN [s EXCEPT !.context = Some(SynthesizedContext(s.memory.name[1])),
                        !.completed = TRUE]
         ELSE [s EXCEPT !.context = Some(ragContext)]

\* retrieve_context, given the context answer_question returns when it is called
retrieve_context(s, ragContext) ==
    IF ~Truthy(s.current_question) THEN [s EXCEPT !.completed = TRUE]
    ELSE IF ShortCircuits(s)
         THEN [s EXCEPT !.context = Some(SynthesizedContext(s.memory.name[1]))]
         ELSE [s EXCEPT !.context = Some(ragContext)]

\* a generate_response that returns early on a missing question only
GenerateReturnsEarlyOnQuestionOnly(s) == ~Truthy(s.current_question)

\* generate_response returns before any language-model call
GenerateReturnsEarly(s) == ~Truthy(s.current_question) \/ ~Truthy(s.context)

\* a generate_response whose early return leaves the completion flag alone
GenerateEarlyResultNoFlag(s) == s

\* what generate_response returns on its early return
GenerateEarlyResult(s) == [s EXCEPT !.completed = TRUE]

\* a generate_response that leaves the question pending
generate_response_keeping_question(s, er, answer) ==
    IF GenerateReturnsEarly(s) THEN GenerateEarlyResult(s)
    ELSE [s EXCEPT !.messages = Append(@, AIMessage(answer)),
                   !.memory = extract_personal_info(s.memory, er),
                   !.completed = TRUE]

\* generate_response, given the extraction outcome and the answer text
generate_response(s, er, answer) ==
    IF GenerateReturnsEarly(s) THEN GenerateEarlyResult(s)
    ELSE [s EXCEPT !.messages = Append(@, AIMessage(answer)),
                   !.current_question = None,
                   !.memory = extract_personal_info(s.memory, er),
                   !.completed = TRUE]

should_end(s) ==
    IF s.completed THEN "end"
    ELSE IF /\ s.messages # <<>>
            /\ s.messages[Len(s.messages)].type = "ai"
            /\ \E phrase \in EndingPhrases :
                   Contains(Chars(s.messages[Len(s.messages)].content), phrase)
         THEN "end"
         ELSE "continue"

\* messages[-n:]
LastN(messages, n) ==
    IF Len(messages) <= n THEN messages
    ELSE SubSeq(messages, Len(messages) - n + 1, Len(messages))

\* a prune_messages whose slice keeps one message too many
prune_messages_off_by_one(messages, max_messages) ==
    IF Len(messages) <= max_messages THEN messages
    ELSE LastN(messages, max_messages + 1)

prune_messages(messages, max_messages) ==
    IF Len(messages) <= max_messages THEN messages
    ELSE IF messages[1].type = "system"
         THEN <<messages[1]>> \o LastN(Tail(messages), max_messages)
         ELSE LastN(messages, max_messages)

---------------------------------------------------------------------------
(* ConversationAgent.process_message, step by step *)

\* the call is not running: before the first call, after a return, after a raise
Idle == pc \in {"idle", "returned", "raised"}

ConvInit ==
    /\ conversation_state = InitialState
    /\ state = InitialState
    /\ pc = "idle"
    /\ retval = None
    /\ userText = ""
    /\ turns = 0
    /\ firstTurn = None
    /\ retrieveVisits = 0
    /\ vsCalls = 0
    /\ searchRaised = FALSE
    /\ ctxGot = None
    /\ extracted = None
    /\ appended = <<>>

\* a process_message that starts every turn with an empty memory
StateForTurnForgetting(cs, message) ==
    [cs EXCEPT !.messages = prune_messages(Append(cs.messages, HumanMessage(message)),
                                           MaxMessages),
               !.current_question = Some(message),
               !.completed = FALSE,
               !.memory = EmptyMemory]

\* conversation_state after lines 280-288: the user message appended, the
\* question pending, the completion flag cleared, the history pruned
StateForTurn(cs, message) ==
    [cs EXCEPT !.messages = prune_messages(Append(cs.messages, HumanMessage(message)),
                                           MaxMessages),
               !.current_question = Some(message),
               !.completed = FALSE]

\* a process_message that prepares the turn on a copy of the agent's state
ProcessMessageCallOnCopy(message) ==
    /\ Idle
    /\ state' = StateForTurn(conversation_state, message)
    /\ pc' = "retrieve"
    /\ userText' = message
    /\ turns' = IF turns < TurnCap THEN turns + 1 ELSE turns
    /\ firstTurn' = IF turns = 1 THEN Some([text |-> userText, name |-> extracted])
                    ELSE None
    /\ retrieveVisits' = 0
    /\ vsCalls' = 0
    /\ searchRaised' = FALSE
    /\ ctxGot' = None
    /\ extracted' = None
    /\ appended' = <<>>
    /\ UNCHANGED <<conversation_state, retval>>

\* process_message up to graph.invoke, on the agent
ProcessMessageCall(message) ==
    /\ Idle
    /\ conversation_state' = StateForTurn(conversation_state, message)
    /\ state' = StateForTurn(conversation_state, message)
    /\ pc' = "retrieve"
    /\ userText' = message
    /\ turns' = IF turns < TurnCap THEN turns + 1 ELSE turns
    /\ firstTurn' = IF turns = 1 THEN Some([text |-> userText, name |-> extracted])
                    ELSE None
    /\ retrieveVisits' = 0
    /\ vsCalls' = 0
    /\ searchRaised' = FALSE
    /\ ctxGot' = None
    /\ extracted' = None
    /\ appended' = <<>>
    /\ UNCHANGED retval

\* process_message called on the agent directly
ProcessMessage(message) ==
    /\ ProcessMessageCall(message)
    /\ UNCHANGED <<syncVars, storeVars, appVars, nodeVars, repoVars>>

\* the retrieve node; answer_question searches, then calls the language model
RetrieveNode ==
    /\ pc = "retrieve"
    /\ retrieveVisits < VisitCap
    /\ retrieveVisits' = retrieveVisits + 1
    /\ IF ~Truthy(state.current_question) \/ ShortCircuits(state)
       THEN /\ state' = retrieve_context(state, "")
            /\ pc' = "generate"
            /\ UNCHANGED <<vsCalls, searchRaised, ctxGot>>
       ELSE \E so \in SearchOutcomes, llmOk \in BOOLEAN :
            /\ vsCalls' = vsCalls + 1
            /\ searchRaised' = so.raises
            /\ ctxGot' = Some(get_relevant_context(so))
            /\ IF llmOk
               THEN /\ state' = retrieve_context(state, get_relevant_context(so))
                    /\ pc' = "generate"
               ELSE /\ pc' = "raised"
                    /\ UNCHANGED state
    /\ UNCHANGED <<conversation_state, retval, userText, turns, firstTurn,
                   extracted, appended>>
    /\ UNCHANGED <<syncVars, storeVars, appVars, nodeVars, repoVars>>

\* what llm.invoke does for the answer prompt: it raises, or returns a text
AnswerOutcomes ==
    {[raises |-> TRUE, text |-> ""]}
    \cup {[raises |-> FALSE, text |-> t] :
            t \in IF turns = 1 THEN FirstReplies ELSE LaterReplies}

\* where the conditional edge after generate leads
AfterGenerate(s) == IF should_end(s) = "end" THEN "END" ELSE "retrieve"

\* the generate node and the conditional edge after it.  When the answer call
\* raises after the extraction, the memory dict the extraction wrote to may be
\* the agent's own dict (aliased) or a copy of it.
GenerateNode ==
    /\ pc = "generate"
    /\ IF GenerateReturnsEarly(state)
       THEN /\ state' = generate_response(state, [kind |-> "raise"], "")
            /\ pc' = AfterGenerate(generate_response(state, [kind |-> "raise"], ""))
            /\ UNCHANGED <<conversation_state, extracted, appended>>
       ELSE \E er \in ExtractionOutcomes, ao \in AnswerOutcomes, aliased \in BOOLEAN :
            /\ extracted' = IF turns = 1 /\ er.kind = "json" THEN er.name ELSE None
            /\ IF ao.raises
               THEN /\ pc' = "raised"
                    /\ conversation_state' =
                          IF aliased
                          THEN [conversation_state EXCEPT
                                   !.memory = extract_personal_info(state.memory, er)]
                          ELSE conversation_state
                    /\ UNCHANGED <<state, appended>>
               ELSE /\ aliased
                    /\ state' = generate_response(state, er, ao.text)
                    /\ pc' = AfterGenerate(generate_response(state, er, ao.text))
                    /\ appended' = Append(appended, ao.text)
                    /\ UNCHANGED conversation_state
    /\ UNCHANGED <<retval, userText, turns, firstTurn, retrieveVisits, vsCalls,
                   searchRaised, ctxGot>>
    /\ UNCHANGED <<syncVars, storeVars, appVars, nodeVars, repoVars>>

\* process_message after graph.invoke: the result becomes the agent's state and
\* the content of its last message is returned
ReturnLast ==
    /\ pc = "END"
    /\ conversation_state' = state
    /\ retval' = Some(state.messages[Len(state.messages)].content)
    /\ pc' = "returned"
    /\ UNCHANGED <<state, userText, turns, firstTurn, retrieveVisits, vsCalls,
                   searchRaised, ctxGot, extracted, appended>>
    /\ UNCHANGED <<syncVars, storeVars, appVars, nodeVars, repoVars>>

GraphStep == RetrieveNode \/ GenerateNode

Next ==
    \/ \E message \in TextsAfter(turns) :
           ProcessMessage(message)
    \/ RetrieveNode
    \/ GenerateNode
    \/ ReturnLast

---------------------------------------------------------------------------
(* The GitHub synchronisation: files, hashes, the tracking record *)

\* a file of the repository, by its path relative to the repository root:
\* <<name, extension>>
Paths == {<<"a", "md">>, <<"b", "md">>, <<"c", "txt">>}
\* the order in which os.walk lists the files
WalkOrder == <<<<"a", "md">>, <<"b", "md">>, <<"c", "txt">>>>

\* a file's content: 0 when the file does not exist
Contents == {1, 2}
Absent == 0

\* self.local_dir (knowledge_base.py computes the same directory at line 53)
LocalDir == "github_repos/repo"
\* os.path.join(root, file)
FullPath(rel) == [dir |-> LocalDir, rel |-> rel]
\* os.path.relpath(file_path, base)
RelPath(file_path, base) ==
    IF file_path.dir = base THEN file_path.rel ELSE <<"..", file_path.dir, file_path.rel>>

\* file.endswith('.md')
IsMarkdown(rel) == rel[2] = "md"

\* hashlib.md5(content).hexdigest(): distinct contents, distinct digests
calculate_file_hash(content) == (content * 37 + 11) % 101

NoHash == 0

\* the tracking data _load_tracking_data builds when there is no tracking file
NewTrackingData ==
    [last_commit |-> None, last_sync |-> None, files |-> [p \in Paths |-> NoHash]]

\* what a write of the tracking file leaves when it is cut short after
\* open(..., 'w') has emptied the file: an empty file or a prefix of the JSON
\* text
Truncated == [truncated |-> TRUE]

\* json.load reads the content of the tracking file without JSONDecodeError
Parses(content) == "files" \in DOMAIN content

\* a _load_tracking_data that does not find the tracking file
load_tracking_data_ignoring_file(file) == NewTrackingData

\* _load_tracking_data
load_tracking_data(file) ==
    IF file = None THEN NewTrackingData
    ELSE IF Parses(file[1]) THEN file[1]
    ELSE NewTrackingData

\* _save_tracking_data: the content of the tracking file afterwards
save_tracking_data(td) == Some(td)

\* the markdown files os.walk finds in the mirror, in walk order
MarkdownFiles(files) ==
    SelectSeq(WalkOrder, LAMBDA p : files[p] # Absent /\ IsMarkdown(p))

\* a scan that takes every tracked file for a changed one
ClassifyTrackedAsChanged(td, files, rel) ==
    IF td.files[rel] = NoHash THEN "new" ELSE "changed"

\* lines 140-145: how the scan classifies a file against the tracking data
Classify(td, files, rel) ==
    IF td.files[rel] = NoHash THEN "new"
    ELSE IF td.files[rel] # calculate_file_hash(files[rel]) THEN "changed"
    ELSE "unchanged"

\* a scan that records the hash of the new files only
TrackedAfterScanNewOnly(td, files) ==
    [p \in Paths |->
        IF files[p] # Absent /\ IsMarkdown(p) /\ td.files[p] = NoHash
        THEN calculate_file_hash(files[p]) ELSE td.files[p]]

\* line 148 over the loop: the hashes recorded after the scan
TrackedAfterScan(td, files) ==
    [p \in Paths |->
        IF files[p] # Absent /\ IsMarkdown(p)
        THEN calculate_file_hash(files[p]) ELSE td.files[p]]

\* what sync_repository returns and leaves behind
\* (read: the readings of the clock, hashed: the files whose hash was computed)
SyncOutcome(fetched, scanned, td, file, new_files, changed_files, updated_files, read, hashed) ==
    [fetched |-> fetched, scanned |-> scanned, tracking_data |-> td, file |-> file,
     new_files |-> new_files, changed_files |-> changed_files,
     updated_files |-> updated_files, read |-> read, hashed |-> hashed]

\* a failed clone / pull that still stamps and saves the tracking data
OnFetchErrorSaving(td, file, now) ==
    SyncOutcome(FALSE, FALSE, [td EXCEPT !.last_sync = Some(now)],
                save_tracking_data([td EXCEPT !.last_sync = Some(now)]),
                <<>>, <<>>, <<>>, 0, <<>>)

\* lines 101-103 and 111-113: the clone / pull raised GitCommandError
OnFetchError(td, file, now) ==
    SyncOutcome(FALSE, FALSE, td, file, <<>>, <<>>, <<>>, 0, <<>>)

\* a check that never finds the revision already synchronised
AlreadySyncedNever(td, mir) == FALSE

\* line 120: the mirror's head is the commit recorded by the last scan
AlreadySynced(td, mir) == td.last_commit = Some(mir.commit)

\* GitHubSyncManager.sync_repository after a successful clone / pull, on the
\* mirror mir; now is what datetime.now() returns if it is read
sync_repository(td, file, mir, now) ==
    IF AlreadySynced(td, mir)
    THEN SyncOutcome(TRUE, FALSE, td, file, <<>>, <<>>, <<>>, 0, <<>>)
    ELSE LET md == MarkdownFiles(mir.files)
             scanned == [td EXCEPT !.files = TrackedAfterScan(td, mir.files),
                                   !.last_commit = Some(mir.commit),
                                   !.last_sync = Some(now)]
             new_files == SelectSeq(md, LAMBDA p : Classify(td, mir.files, p) = "new")
             changed_files ==
                 SelectSeq(md, LAMBDA p : Classify(td, mir.files, p) = "changed")
             updated_files ==
                 SelectSeq(md, LAMBDA p : Classify(td, mir.files, p) # "unchanged")
         IN SyncOutcome(TRUE, TRUE, scanned, save_tracking_data(scanned),
                        [i \in 1..Len(new_files) |-> FullPath(new_files[i])],
                        [i \in 1..Len(changed_files) |-> FullPath(changed_files[i])],
                        [i \in 1..Len(updated_files) |-> FullPath(updated_files[i])],
                        1, [i \in 1..Len(md) |-> FullPath(md[i])])

\* Repo.clone_from / origin.pull: the mirror afterwards
Fetch(mir, up, ok) ==
    IF ok THEN [exists |-> TRUE, commit |-> up.commit, files |-> up.files] ELSE mir

---------------------------------------------------------------------------
(* The vector store (src/src/embeddings.py) and the document loaders *)

\* identifiers the vector store issues in the runs explored
MaxIds == 3

\* the source add_documents_to_vector_store gives a document that carries none
UnknownSource == [dir |-> "", rel |-> <<"unknown", "">>]

\* a langchain Document: the source of its metadata (None when it has none)
\* and its text
Document(source, content) == [source |-> source, content |-> content]

\* a loader that leaves the source out of the metadata
LoaderLoadWithoutSource(file_path, content) == <<Document(None, content)>>

\* PyPDFLoader / TextLoader / Docx2txtLoader / UnstructuredMarkdownLoader
\* (file_path).load(): one document, carrying the path as its source
LoaderLoad(file_path, content) == <<Document(Some(file_path), content)>>

\* the extensions load_document and load_documents_from_files accept
IsSupported(rel) == rel[2] \in {"pdf", "txt", "docx", "md"}

\* the contents longer than chunk_size
LongContents == {2}

\* RecursiveCharacterTextSplitter on one document: a long text gives two
\* chunks, any other one; each chunk carries the document's metadata
SplitDocument(doc) ==
    [i \in 1..(IF doc.content \in LongContents THEN 2 ELSE 1) |->
        [source |-> doc.source, content |-> doc.content, part |-> i]]

\* chunk_documents
RECURSIVE chunk_documents(_)
chunk_documents(documents) ==
    IF documents = <<>> THEN <<>>
    ELSE SplitDocument(documents[1]) \o chunk_documents(Tail(documents))

\* Chroma's from_documents / add_documents: every chunk is stored under a
\* fresh identifier, after the chunks already there
collection_add(store, chunks, first_id) ==
    store \o [i \in 1..Len(chunks) |->
                [id |-> first_id + i - 1, source |-> chunks[i].source,
                 content |-> chunks[i].content, part |-> chunks[i].part]]

\* _collection.delete(ids)
collection_delete(store, ids) == SelectSeq(store, LAMBDA c : c.id \notin ids)

\* create_vector_store with a persist_directory
create_vector_store(store, chunks, first_id) == collection_add(store, chunks, first_id)

\* lines 73-75: a document without a source gets the source 'unknown'
WithSource(doc) ==
    IF doc.source = None THEN [doc EXCEPT !.source = Some(UnknownSource)] ELSE doc

\* add_documents_to_vector_store: the chunks in the store afterwards
add_documents_to_vector_store(store, exists, documents, first_id) ==
    LET docs == [i \in 1..Len(documents) |-> WithSource(documents[i])]
    IN IF ~exists THEN create_vector_store(store, docs, first_id)
       ELSE collection_add(store, docs, first_id)

\* get_all_documents_metadata: one entry per stored chunk
get_all_documents_metadata(store, exists) ==
    IF ~exists THEN <<>>
    ELSE [i \in 1..Len(store) |->
            [id |-> store[i].id, source |-> store[i].source,
             content_preview |-> store[i].content, part |-> store[i].part]]

\* the identifiers _collection.get(where={"source": source_path}) returns
IdsOfSource(store, source_path) ==
    {store[i].id : i \in {j \in 1..Len(store) : store[j].source = Some(source_path)}}

\* a delete_documents_by_source that deletes the first matching chunk only
delete_documents_by_source_first_only(store, exists, source_path, errs) ==
    LET ids == IdsOfSource(store, source_path)
    IN IF ~exists \/ errs \/ ids = {} THEN [ok |-> FALSE, count |-> 0, store |-> store]
       ELSE [ok |-> TRUE, count |-> Cardinality(ids),
             store |-> collection_delete(store, {CHOOSE i \in ids : \A j \in ids : i <= j})]

\* delete_documents_by_source: what it returns and the chunks left; errs says
\* whether a call on the collection raises
delete_documents_by_source(store, exists, source_path, errs) ==
    LET ids == IdsOfSource(store, source_path)
    IN IF ~exists \/ errs \/ ids = {} THEN [ok |-> FALSE, count |-> 0, store |-> store]
       ELSE [ok |-> TRUE, count |-> Cardinality(ids),
             store |-> collection_delete(store, ids)]

\* the identifiers of the chunks in the store
StoredIds(store) == {store[i].id : i \in 1..Len(store)}

\* a delete_documents_by_ids that refuses a batch holding an unknown identifier
delete_documents_by_ids_strict(store, exists, doc_ids, errs) ==
    IF ~exists \/ errs \/ ~(doc_ids \subseteq StoredIds(store))
    THEN [ok |-> FALSE, store |-> store]
    ELSE [ok |-> TRUE, store |-> collection_delete(store, doc_ids)]

\* delete_documents_by_ids: what it returns and the chunks left; errs says
\* whether the call on the collection raises
delete_documents_by_ids(store, exists, doc_ids, errs) ==
    IF ~exists \/ errs THEN [ok |-> FALSE, store |-> store]
    ELSE [ok |-> TRUE, store |-> collection_delete(store, doc_ids)]

\* no operation on the vector store yet
NoStoreOp ==
    [op |-> "none", source_path |-> UnknownSource, doc_ids |-> {}, ok |-> FALSE,
     count |-> 0, before |-> <<>>, existed |-> FALSE, errs |-> FALSE]

\* what an operation on the vector store leaves in store_result
StoreOp(op, source_path, doc_ids, ok, count) ==
    [op |-> op, source_path |-> source_path, doc_ids |-> doc_ids, ok |-> ok,
     count |-> count, before |-> vector_store, existed |-> vs_path_exists,
     errs |-> FALSE]

---------------------------------------------------------------------------
(* sync_github_knowledge_base *)

\* knowledge_base.py lines 62-72: the status tag, read from the tracking file
StatusTag(file, relative_path) ==
    IF file = None THEN "unknown"
    ELSE IF ~Parses(file[1]) THEN "unknown"
    ELSE IF file[1].files[relative_path] = NoHash THEN "new"
    ELSE "updated"

\* load_document on a markdown file of the mirror: one document, carrying
\* the file's path as its source
LoadedDocument(file_path, files) ==
    LoaderLoad(file_path, files[RelPath(file_path, LocalDir)])[1]

\* lines 48-88: the files among updated_files that load_document loads
\* (loadFails are those for which it raises), in order
LoadedFiles(updated_files, loadFails) ==
    SelectSeq(updated_files, LAMBDA f : f \notin loadFails)

\* lines 80-85: the entries of processed_files
ProcessedFiles(updated_files, loadFails, file) ==
    LET loaded == LoadedFiles(updated_files, loadFails)
    IN [i \in 1..Len(loaded) |->
           [path |-> loaded[i],
            relative_path |-> RelPath(loaded[i], LocalDir),
            status |-> StatusTag(file, RelPath(loaded[i], LocalDir)),
            document_count |-> 1]]

NoSync ==
    [called |-> FALSE, fetched |-> FALSE, scanned |-> FALSE, raised |-> FALSE,
     new_count |-> 0, changed_count |-> 0, updated_files |-> <<>>,
     new_files |-> <<>>, changed_files |-> <<>>, processed_files |-> <<>>,
     hashed |-> <<>>, interrupted |-> "no"]

\* the repository when the program starts: its first commit holds the text
\* file and any of the markdown files
InitialUpstreams ==
    {[commit |-> 1, files |-> f] :
        f \in {g \in [Paths -> {Absent, 1}] : g[<<"c", "txt">>] = 1}}

\* a repository with one markdown file
OneFileUpstream ==
    [commit |-> 1, files |-> [p \in Paths |-> IF p = <<"a", "md">> THEN 1 ELSE Absent]]

\* nothing has been synchronised yet
SyncInit(upstreams) ==
    /\ upstream \in upstreams
    /\ mirror = [exists |-> FALSE, commit |-> 0, files |-> [p \in Paths |-> Absent]]
    /\ tracking_file = None
    /\ tracking_data = NewTrackingData
    /\ vector_store = <<>>
    /\ timestamps = 0
    /\ sync_result = NoSync
    /\ preTracking = None
    /\ syncsSinceChange = 0
    /\ prevFetched = FALSE

\* a push to the repository: one file is added, changed or removed
UpstreamCommit(p, c) ==
    /\ upstream.commit <= MaxCommits
    /\ upstream.files[p] # c
    /\ upstream' = [commit |-> upstream.commit + 1,
                    files |-> [upstream.files EXCEPT ![p] = c]]
    /\ syncsSinceChange' = 0
    /\ UNCHANGED <<mirror, tracking_file, tracking_data, vector_store, timestamps,
                   sync_result, preTracking, prevFetched>>
    /\ UNCHANGED <<convVars, storeVars, appVars, nodeVars, repoVars>>

\* one call of sync_github_knowledge_base: fetchOk says whether the clone / pull
\* succeeds, loadFails are the files for which load_document raises, addOk says
\* whether add_documents_to_vector_store succeeds
SyncKnowledgeBase(fetchOk, loadFails, addOk) ==
    LET td0 == load_tracking_data(tracking_file)
        mir == Fetch(mirror, upstream, fetchOk)
        r == IF fetchOk THEN sync_repository(td0, tracking_file, mir, timestamps + 1)
             ELSE OnFetchError(td0, tracking_file, timestamps + 1)
        loaded == LoadedFiles(r.updated_files, loadFails)
        documents == [i \in 1..Len(loaded) |-> LoadedDocument(loaded[i], mir.files)]
        chunks == chunk_documents(documents)
        adds == documents # <<>>
    IN /\ loadFails \subseteq {r.updated_files[i] : i \in 1..Len(r.updated_files)}
       /\ adds \/ addOk
       /\ mirror' = mir
       /\ tracking_data' = r.tracking_data
       /\ tracking_file' = r.file
       /\ timestamps' = timestamps + r.read
       /\ vector_store' =
            IF adds /\ addOk
            THEN add_documents_to_vector_store(vector_store, vs_path_exists, chunks, next_id)
            ELSE vector_store
       /\ vs_path_exists' = (vs_path_exists \/ (adds /\ addOk))
       /\ next_id' = IF adds /\ addOk THEN next_id + Len(chunks) ELSE next_id
       /\ sync_result' =
            [called |-> TRUE, fetched |-> r.fetched, scanned |-> r.scanned,
             raised |-> ~addOk,
             new_count |-> Len(r.new_files), changed_count |-> Len(r.changed_files),
             updated_files |-> r.updated_files,
             new_files |-> r.new_files, changed_files |-> r.changed_files,
             hashed |-> r.hashed,
             interrupted |-> "no",
             processed_files |->
                 IF addOk THEN ProcessedFiles(r.updated_files, loadFails, r.file)
                 ELSE <<>>]
       /\ preTracking' = tracking_file
       /\ syncsSinceChange' = IF syncsSinceChange < 2 THEN syncsSinceChange + 1 ELSE 2
       /\ prevFetched' = sync_result.fetched
       /\ store_result' =
            IF adds /\ addOk THEN StoreOp("sync", UnknownSource, {}, TRUE, Len(chunks))
            ELSE store_result
       /\ UNCHANGED upstream
       /\ UNCHANGED <<convVars, appVars, nodeVars, repoVars>>

SyncNext ==
    \/ \E p \in Paths, c \in {Absent} \cup Contents : UpstreamCommit(p, c)
    \/ \E fetchOk \in BOOLEAN, addOk \in BOOLEAN,
          loadFails \in SUBSET {FullPath(p) : p \in Paths} :
           SyncKnowledgeBase(fetchOk, loadFails, addOk)

\* scans of the mirror in the runs with calls that are cut off
MaxScans == 3

\* where a sync_github_knowledge_base call can be cut off: in the clone /
\* pull, in the scan (lines 115-152), in the write of the tracking file
\* (lines 75-76), or after it, before the documents are added
SyncPoints == {"fetching", "scanning", "saving", "indexing"}

\* a sync_github_knowledge_base call whose process is stopped at the point
\* given; nothing is returned
InterruptedSync(point) ==
    LET td0 == load_tracking_data(tracking_file)
        mir == Fetch(mirror, upstream, point # "fetching")
        r == IF point = "fetching" THEN OnFetchError(td0, tracking_file, timestamps + 1)
             ELSE sync_repository(td0, tracking_file, mir, timestamps + 1)
        writes == point \in {"saving", "indexing"} /\ r.scanned
    IN /\ timestamps < MaxScans
       /\ (point = "saving" => r.scanned)
       /\ mirror' = mir
       /\ tracking_file' = IF ~writes THEN tracking_file
                           ELSE IF point = "saving" THEN Some(Truncated)
                           ELSE r.file
       /\ tracking_data' = IF writes THEN r.tracking_data ELSE td0
       /\ timestamps' = IF writes THEN timestamps + r.read ELSE timestamps
       /\ sync_result' = [NoSync EXCEPT !.interrupted = point]
       /\ preTracking' = tracking_file
       /\ UNCHANGED <<upstream, vector_store, syncsSinceChange, prevFetched>>
       /\ UNCHANGED <<convVars, storeVars, appVars, nodeVars, repoVars>>

\* syncs that run to their end and syncs that are cut off
InterruptNext ==
    \/ \E p \in Paths, c \in {Absent} \cup Contents : UpstreamCommit(p, c)
    \/ (timestamps < MaxScans /\ SyncKnowledgeBase(TRUE, {}, TRUE))
    \/ \E point \in SyncPoints : InterruptedSync(point)

---------------------------------------------------------------------------
(* GitHubSyncManager over several repositories and branches; the files of a
   revision are left out, a mirror is described by the revision it is at *)

\* pushes to the repositories in the runs explored
MaxPushes == 2

\* repository URLs, as <<owner, name, suffix>>: https://github.com/owner/name
\* followed by the suffix
RepoURLs == {<<"alice", "notes", "">>, <<"bob", "notes", "">>, <<"alice", "wiki", ".git">>}
Branches == {"main", "dev"}

\* line 24: repo_url.split("/")[-1].replace(".git", "")
repo_name(repo_url) == repo_url[2]

\* line 31: os.path.join(project_root, "github_repos", self.repo_name)
local_dir(repo_url) == <<"github_repos", repo_name(repo_url)>>

\* lines 34-37: the path of the tracking file
tracking_path(repo_url) == <<"github_repos", repo_name(repo_url), "_tracking.json">>

\* the head of a branch of a repository: revisions differ between
\* repositories, branches and pushes
BranchHead(rem, repo_url, branch) ==
    [repo |-> repo_url, branch |-> branch, n |-> rem[repo_url][branch]]

\* lines 55-70 for the manager of repo_url: the record loaded from the file,
\* or a new one
LoadRecord(file, repo_url) ==
    IF file = None THEN [repo_url |-> repo_url, last_commit |-> None] ELSE file[1]

\* Repo.clone_from(self.repo_url, self.local_dir, branch=self.branch)
CloneFrom(rem, repo_url, branch) ==
    [origin |-> repo_url, branch |-> branch, commit |-> BranchHead(rem, repo_url, branch)]

\* Repo(self.local_dir).remotes.origin.pull(): the branch checked out in the
\* mirror is brought to the head of that branch at the mirror's origin
OriginPull(rem, mir) == [mir EXCEPT !.commit = BranchHead(rem, mir.origin, mir.branch)]

NoRepoSync ==
    [called |-> FALSE, repo_url |-> <<"", "", "">>, branch |-> "", fetched |-> FALSE,
     cloned |-> FALSE, loaded |-> None, head |-> None]

RepoInit ==
    /\ remotes = [u \in RepoURLs |-> [b \in Branches |-> 1]]
    /\ mirrors = [d \in {local_dir(u) : u \in RepoURLs} |-> None]
    /\ tracking_files = [f \in {tracking_path(u) : u \in RepoURLs} |-> None]
    /\ repo_sync = NoRepoSync

\* the sum of f over the set S
RECURSIVE SumOver(_, _)
SumOver(f, S) ==
    IF S = {} THEN 0
    ELSE LET x == CHOOSE y \in S : TRUE IN f[x] + SumOver(f, S \ {x})

\* the pushes made so far
Pushes == SumOver([u \in RepoURLs |-> SumOver(remotes[u], Branches) - Cardinality(Branches)],
                  RepoURLs)

\* a push to a branch of a repository
Push(repo_url, branch) ==
    /\ Pushes < MaxPushes
    /\ remotes' = [remotes EXCEPT ![repo_url][branch] = @ + 1]
    /\ UNCHANGED <<mirrors, tracking_files, repo_sync>>
    /\ UNCHANGED <<convVars, syncVars, storeVars, appVars, nodeVars>>

\* GitHubSyncManager(repo_url, None, branch).sync_repository(); ok says
\* whether the clone / pull succeeds
RepoSync(repo_url, branch, ok) ==
    LET dir == local_dir(repo_url)
        path == tracking_path(repo_url)
        record == LoadRecord(tracking_files[path], repo_url)
        mir == IF mirrors[dir] = None THEN CloneFrom(remotes, repo_url, branch)
               ELSE OriginPull(remotes, mirrors[dir][1])
        saves == ok /\ record.last_commit # Some(mir.commit)
    IN /\ mirrors' = IF ok THEN [mirrors EXCEPT ![dir] = Some(mir)] ELSE mirrors
       /\ tracking_files' =
            IF saves
            THEN [tracking_files EXCEPT
                     ![path] = Some([record EXCEPT !.last_commit = Some(mir.commit)])]
            ELSE tracking_files
       /\ repo_sync' =
            [called |-> TRUE, repo_url |-> repo_url, branch |-> branch, fetched |-> ok,
             cloned |-> (ok /\ mirrors[dir] = None), loaded |-> tracking_files[path],
             head |-> Some(BranchHead(remotes, repo_url, branch))]
       /\ UNCHANGED remotes
       /\ UNCHANGED <<convVars, syncVars, storeVars, appVars, nodeVars>>

RepoNext ==
    \/ \E repo_url \in RepoURLs, branch \in Branches : Push(repo_url, branch)
    \/ \E repo_url \in RepoURLs, branch \in Branches, ok \in BOOLEAN :
           RepoSync(repo_url, branch, ok)

---------------------------------------------------------------------------
(* Building, filling and pruning the vector store *)

\* the documents directory of main.py, as os.listdir lists it, and the text
\* of its files
DataDir == "data"
DataListing == <<<<"notes", "txt">>, <<"logo", "png">>>>
DataContent(rel) == IF rel = <<"notes", "txt">> THEN 1 ELSE 2

\* the names tempfile.NamedTemporaryFile gives the uploaded files
TempNames == {"tmp1", "tmp2"}
TempFile(name) == [dir |-> "/tmp", rel |-> <<name, "txt">>]

\* the sources a deletion is asked for
StoreSources ==
    {[dir |-> DataDir, rel |-> DataListing[i]] : i \in 1..Len(DataListing)}
    \cup {TempFile(name) : name \in TempNames}
    \cup {FullPath(p) : p \in {q \in Paths : IsMarkdown(q)}}

\* load_documents_from_directory: the documents of the supported files
RECURSIVE load_documents_from_directory(_)
load_documents_from_directory(listing) ==
    IF listing = <<>> THEN <<>>
    ELSE (IF IsSupported(listing[1])
          THEN LoaderLoad([dir |-> DataDir, rel |-> listing[1]], DataContent(listing[1]))
          ELSE <<>>)
         \o load_documents_from_directory(Tail(listing))

\* the variables of the synchronisation other than the vector store
trackerVars == <<upstream, mirror, tracking_file, tracking_data, timestamps,
                 sync_result, preTracking, syncsSinceChange, prevFetched>>

\* no vector store has been built
StoreInit ==
    /\ vs_path_exists = FALSE
    /\ next_id = 1
    /\ store_result = NoStoreOp

\* main.py setup_knowledge_base; ok says whether create_vector_store succeeds
SetupKnowledgeBase(ok) ==
    LET chunks == chunk_documents(load_documents_from_directory(DataListing))
    IN /\ next_id + Len(chunks) - 1 <= MaxIds
       /\ vs_path_exists' = TRUE
       /\ vector_store' = IF ok THEN create_vector_store(vector_store, chunks, next_id)
                          ELSE vector_store
       /\ next_id' = IF ok THEN next_id + Len(chunks) ELSE next_id
       /\ store_result' = StoreOp("setup", UnknownSource, {}, ok, Len(chunks))
       /\ UNCHANGED trackerVars
       /\ UNCHANGED <<convVars, appVars, nodeVars, repoVars>>

\* app.py lines 188-238, the Process Documents button, for one uploaded file
\* with the text content: loadOk says whether the loader reads it, addOk
\* whether add_documents_to_vector_store succeeds
UploadDocuments(name, content, loadOk, addOk) ==
    LET documents == IF loadOk THEN LoaderLoad(TempFile(name), content) ELSE <<>>
        chunks == chunk_documents(documents)
        adds == documents # <<>> /\ addOk
    IN /\ next_id + Len(chunks) - 1 <= MaxIds
       /\ loadOk \/ addOk
       /\ vector_store' =
            IF adds
            THEN add_documents_to_vector_store(vector_store, vs_path_exists, chunks, next_id)
            ELSE vector_store
       /\ vs_path_exists' = (vs_path_exists \/ adds)
       /\ next_id' = IF adds THEN next_id + Len(chunks) ELSE next_id
       /\ store_result' = StoreOp("upload", TempFile(name), {}, adds, Len(chunks))
       /\ UNCHANGED trackerVars
       /\ UNCHANGED <<convVars, appVars, nodeVars, repoVars>>

\* the Delete Source button: delete_documents_by_source(source_path)
DeleteSource(source_path, errs) ==
    LET r == delete_documents_by_source(vector_store, vs_path_exists, source_path, errs)
    IN /\ vector_store' = r.store
       /\ store_result' =
            [StoreOp("delete_by_source", source_path, {}, r.ok, r.count) EXCEPT !.errs = errs]
       /\ UNCHANGED <<vs_path_exists, next_id>>
       /\ UNCHANGED trackerVars
       /\ UNCHANGED <<convVars, appVars, nodeVars, repoVars>>

\* the Delete Selected button: delete_documents_by_ids(doc_ids)
DeleteIds(doc_ids, errs) ==
    LET r == delete_documents_by_ids(vector_store, vs_path_exists, doc_ids, errs)
    IN /\ doc_ids # {}
       /\ vector_store' = r.store
       /\ store_result' =
            [StoreOp("delete_by_ids", UnknownSource, doc_ids, r.ok, 0) EXCEPT !.errs = errs]
       /\ UNCHANGED <<vs_path_exists, next_id>>
       /\ UNCHANGED trackerVars
       /\ UNCHANGED <<convVars, appVars, nodeVars, repoVars>>

StoreNext ==
    \/ \E ok \in BOOLEAN : SetupKnowledgeBase(ok)
    \/ \E name \in TempNames, content \in Contents, loadOk \in BOOLEAN, addOk \in BOOLEAN :
           UploadDocuments(name, content, loadOk, addOk)
    \/ \E source_path \in StoreSources, errs \in BOOLEAN : DeleteSource(source_path, errs)
    \/ \E doc_ids \in SUBSET (1..MaxIds), errs \in BOOLEAN : DeleteIds(doc_ids, errs)
    \/ SyncKnowledgeBase(TRUE, {}, TRUE)

---------------------------------------------------------------------------
(* The chat page (src/app.py lines 255-328) *)

\* turns of the chat page in the runs explored
ChatCap == 3

\* the assistant message the page appends when process_message raises
FallbackText == "I encountered an error processing your request. Please try again."
\* str(e) of the exceptions process_message raises
ExceptionTexts == {"Connection error."}

ChatMessage(role, content) == [role |-> role, content |-> content]

\* lines 255-289: a new session
AppInit ==
    /\ session_messages = <<>>
    /\ processing = FALSE
    /\ session_question = ""
    /\ app_pc = "form"
    /\ errors_shown = <<>>
    /\ turn_outcome = "none"
    /\ thinking = FALSE

\* lines 292-308: the form is submitted with a text; the page reruns
SubmitForm(user_input) ==
    /\ app_pc = "form"
    /\ ~processing
    /\ user_input # ""
    /\ turns < ChatCap
    /\ processing' = TRUE
    /\ session_messages' = Append(session_messages, ChatMessage("user", user_input))
    /\ session_question' = user_input
    /\ app_pc' = "thinking"
    /\ errors_shown' = <<>>
    /\ turn_outcome' = "pending"
    /\ UNCHANGED thinking
    /\ UNCHANGED <<convVars, syncVars, storeVars, nodeVars, repoVars>>

\* line 313: the rerun enters agent.process_message(current_question)
CallAgent ==
    /\ app_pc = "thinking"
    /\ processing
    /\ ProcessMessageCall(session_question)
    /\ app_pc' = "called"
    /\ UNCHANGED <<session_messages, processing, session_question, errors_shown,
                   turn_outcome, thinking>>
    /\ UNCHANGED <<syncVars, storeVars, nodeVars, repoVars>>

\* lines 313-315 and 323-328: process_message returned
AgentReturned ==
    /\ app_pc = "called"
    /\ pc = "returned"
    /\ session_messages' = Append(session_messages, ChatMessage("assistant", retval[1]))
    /\ processing' = FALSE
    /\ app_pc' = "form"
    /\ turn_outcome' = "answered"
    /\ UNCHANGED <<session_question, errors_shown, thinking>>
    /\ UNCHANGED <<convVars, syncVars, storeVars, nodeVars, repoVars>>

\* lines 316-328: process_message raised the exception e
AgentRaised(e) ==
    /\ app_pc = "called"
    /\ pc = "raised"
    /\ errors_shown' = Append(errors_shown, "Error: " \o e)
    /\ session_messages' = Append(session_messages, ChatMessage("assistant", FallbackText))
    /\ processing' = FALSE
    /\ app_pc' = "form"
    /\ turn_outcome' = "failed"
    /\ UNCHANGED <<session_question, thinking>>
    /\ UNCHANGED <<convVars, syncVars, storeVars, nodeVars, repoVars>>

\* a Clear Conversation button that also gives the agent a new state
ClearConversationResettingAgent ==
    /\ app_pc = "form"
    /\ session_messages' = <<>>
    /\ thinking' = FALSE
    /\ turn_outcome' = "cleared"
    /\ conversation_state' = InitialState
    /\ UNCHANGED <<processing, session_question, app_pc, errors_shown>>
    /\ UNCHANGED <<state, pc, retval, userText, turns, firstTurn, retrieveVisits, vsCalls,
                   searchRaised, ctxGot, extracted, appended>>
    /\ UNCHANGED <<syncVars, storeVars, nodeVars, repoVars>>

\* lines 153-156: the Clear Conversation button, pressed while the form is shown
ClearConversation ==
    /\ app_pc = "form"
    /\ session_messages' = <<>>
    /\ thinking' = FALSE
    /\ turn_outcome' = "cleared"
    /\ UNCHANGED <<processing, session_question, app_pc, errors_shown>>
    /\ UNCHANGED <<convVars, syncVars, storeVars, nodeVars, repoVars>>

AppNext ==
    \/ ClearConversation
    \/ \E user_input \in TextsAfter(turns) : SubmitForm(user_input)
    \/ CallAgent
    \/ RetrieveNode
    \/ GenerateNode
    \/ ReturnLast
    \/ AgentReturned
    \/ \E e \in ExceptionTexts : AgentRaised(e)

---------------------------------------------------------------------------
(* The node functions of the graph, one application at a time *)

\* the states a node function is applied to: a history ending with the user's
\* message, the question pending or cleared, any context, any memory
NodeQuestions == {"My name is Alex", "what's my name", "What is my name?", ""}
NodeHistories == {<<>>, <<HumanMessage("hi"), AIMessage("Nice to meet you!")>>}
NodeContexts == {None, Some(""), Some("doc one")}
NodeMemories ==
    {[name |-> n, other_info |-> o] :
        n \in {None, Some("Alex"), Some("Bob")}, o \in {None, Some("likes tea")}}

NodeStates ==
    {[messages |-> h \o <<HumanMessage(q)>>, context |-> c,
      current_question |-> IF pending THEN Some(q) ELSE None,
      completed |-> FALSE, memory |-> m] :
        q \in NodeQuestions, h \in NodeHistories, c \in NodeContexts,
        pending \in BOOLEAN, m \in NodeMemories}

\* the extraction replies tried on them: those of ExtractionOutcomes and
\* further values of the name field
NodeExtractionOutcomes ==
    ExtractionOutcomes
    \cup {[kind |-> "json", name |-> n, other_info |-> o] :
            n \in {Some("none"), Some("Bob"), Some("")}, o \in InfoFields}

\* the answers tried on them
NodeAnswerOutcomes ==
    {[raises |-> TRUE, text |-> ""], [raises |-> FALSE, text |-> "Nice to meet you!"]}

\* the calls retrieve_context makes, in order: the similarity search and the
\* completion of answer_question, or none
RetrieveCalls(s) ==
    IF ~Truthy(s.current_question) \/ ShortCircuits(s) THEN <<>>
    ELSE <<"search", "rag">>

\* the language-model calls generate_response makes, in order
GenerateCalls(s) ==
    IF GenerateReturnsEarly(s) THEN <<>> ELSE <<"extraction", "answer">>

NoRun ==
    [op |-> "none", er |-> [kind |-> "raise", name |-> None, other_info |-> None],
     ao |-> [raises |-> FALSE, text |-> ""],
     calls |-> <<>>, raised |-> FALSE, out |-> InitialState,
     so |-> [raises |-> FALSE, docs |-> <<>>], text |-> ""]

NodeInit(states) ==
    /\ node_in \in states
    /\ node_run = NoRun

\* extract_personal_info, called by generate_response at line 114; the memory
\* it writes to is the memory of the state
ApplyExtract(er) ==
    /\ ~GenerateReturnsEarly(node_in)
    /\ node_run' =
         [op |-> "extract", er |-> er, ao |-> NoRun.ao,
          calls |-> <<"extraction">>, raised |-> FALSE,
          out |-> [node_in EXCEPT !.memory = extract_personal_info(node_in.memory, er)],
          so |-> NoRun.so, text |-> ""]
    /\ UNCHANGED node_in
    /\ UNCHANGED <<convVars, syncVars, storeVars, appVars, repoVars>>

\* retrieve_context; so is what the similarity search does, llmOk whether the
\* completion of answer_question returns
ApplyRetrieve(so, llmOk) ==
    /\ node_run' =
         [op |-> "retrieve", er |-> NoRun.er, ao |-> NoRun.ao,
          calls |-> RetrieveCalls(node_in),
          raised |-> (RetrieveCalls(node_in) # <<>> /\ ~llmOk),
          out |-> IF RetrieveCalls(node_in) # <<>> /\ ~llmOk THEN node_in
                  ELSE retrieve_context(node_in, get_relevant_context(so)),
          so |-> NoRun.so, text |-> ""]
    /\ UNCHANGED node_in
    /\ UNCHANGED <<convVars, syncVars, storeVars, appVars, repoVars>>

\* generate_response; er is what the extraction call does, ao what the answer
\* call does.  When the answer call raises, the extraction has already
\* written to the memory.
ApplyGenerate(er, ao) ==
    /\ node_run' =
         [op |-> "generate", er |-> er, ao |-> ao, calls |-> GenerateCalls(node_in),
          raised |-> (~GenerateReturnsEarly(node_in) /\ ao.raises),
          out |-> IF ~GenerateReturnsEarly(node_in) /\ ao.raises
                  THEN [node_in EXCEPT !.memory = extract_personal_info(node_in.memory, er)]
                  ELSE generate_response(node_in, er, ao.text),
          so |-> NoRun.so, text |-> ""]
    /\ UNCHANGED node_in
    /\ UNCHANGED <<convVars, syncVars, storeVars, appVars, repoVars>>

\* what the similarity search does in a get_relevant_context call: the
\* outcomes of SearchOutcomes, and a search that returns three chunks
NodeSearchOutcomes ==
    SearchOutcomes \cup {[raises |-> FALSE, docs |-> <<"doc two", "doc one", "doc three">>]}

\* KnowledgeRetriever.get_relevant_context(query, top_k) with the pending
\* question; so is what the similarity search does
ApplyGetRelevantContext(so) ==
    /\ node_run' =
         [NoRun EXCEPT !.op = "context", !.calls = <<"search">>, !.out = node_in,
                       !.so = so, !.text = get_relevant_context(so)]
    /\ UNCHANGED node_in
    /\ UNCHANGED <<convVars, syncVars, storeVars, appVars, repoVars>>

NodeNext ==
    \/ \E so \in NodeSearchOutcomes : ApplyGetRelevantContext(so)
    \/ \E er \in NodeExtractionOutcomes : ApplyExtract(er)
    \/ \E so \in SearchOutcomes, llmOk \in BOOLEAN : ApplyRetrieve(so, llmOk)
    \/ \E er \in NodeExtractionOutcomes, ao \in NodeAnswerOutcomes : ApplyGenerate(er, ao)

---------------------------------------------------------------------------
(* Specifications *)

\* the conversation agent, beside a repository that is not synchronised
Init ==
    /\ ConvInit
    /\ SyncInit({OneFileUpstream})
    /\ StoreInit
    /\ AppInit
    /\ NodeInit({InitialState})
    /\ RepoInit

Spec == Init /\ [][Next]_vars

\* the synchronisation, beside an agent that is not called
InitSync ==
    /\ ConvInit
    /\ SyncInit(InitialUpstreams)
    /\ StoreInit
    /\ AppInit
    /\ NodeInit({InitialState})
    /\ RepoInit

SyncSpec == InitSync /\ [][SyncNext]_vars

\* the synchronisation with calls that are cut off
InterruptSpec == InitSync /\ [][InterruptNext]_vars

\* managers of several repositories and branches
RepoSpec == Init /\ [][RepoNext]_vars

\* the operations on the vector store
StoreSpec == Init /\ [][StoreNext]_vars

\* the chat page of app.py driving the agent
AppSpec == Init /\ [][AppNext]_vars

\* the node functions of the graph, applied to the states of NodeStates
InitNode ==
    /\ ConvInit
    /\ SyncInit({OneFileUpstream})
    /\ StoreInit
    /\ AppInit
    /\ NodeInit(NodeStates)
    /\ RepoInit

NodeSpec == InitNode /\ [][NodeNext]_vars

---------------------------------------------------------------------------
(* Claims about the conversation agent *)

\* C1: in one process_message call the retrieve node is entered at most twice,
\* and a call whose language-model calls do not raise reaches END: generate is
\* entered only from retrieve, so the call takes at most four node steps, and
\* while the call is at a node that node can run (it then leads to the other
\* node, to END, or out of the call by a raise of the language model).
C1_TerminationBound ==
    /\ retrieveVisits <= 2
    /\ pc \in {"idle", "retrieve", "generate", "END", "returned", "raised"}
    /\ (pc \in {"retrieve", "generate"} => ENABLED GraphStep)

\* C1 witness: a call has reached END after entering retrieve
C1_Witness == pc = "END" /\ retrieveVisits >= 1

\* C2 as stated: after more than 10 calls the stored messages number at most 10
\* (11 when the first one is a system message) whenever a call has returned.
C2_Original ==
    (pc = "returned" /\ turns > 10) =>
        Len(conversation_state.messages) <=
            (IF conversation_state.messages[1].type = "system"
             THEN MaxMessages + 1 ELSE MaxMessages)

\* C2 amended: after a call has ended the stored messages number at most 11,
\* the 10 kept by the pruning at the start of the call and the assistant
\* message appended during it.
C2_PruningBound ==
    pc \in {"returned", "raised"} =>
        Len(conversation_state.messages) <= MaxMessages + 1

\* C2 witness: more than 10 calls were made, the last returned, 11 messages are stored
C2_Witness ==
    /\ pc = "returned"
    /\ turns > 10
    /\ Len(conversation_state.messages) = MaxMessages + 1

\* C3: on a fresh agent, after "My name is Alex" (the extraction reply naming
\* Alex), the call "What is my name?" issues no similarity search, hands the
\* synthesized sentence naming Alex to generate, and an answer is produced.
C3_MemoryShortCircuit ==
    ( /\ pc = "returned"
      /\ turns = 2
      /\ firstTurn = Some([text |-> "My name is Alex", name |-> Some("Alex")])
      /\ userText = "What is my name?" )
    => ( /\ vsCalls = 0
         /\ conversation_state.context = Some(SynthesizedContext("Alex"))
         /\ Len(appended) = 1 )

\* C4: a call that returns, returns the text of an assistant message that was
\* appended during that call.
C4_ReturnsNewAssistantText ==
    pc = "returned" =>
        /\ Len(appended) = 1
        /\ conversation_state.messages[Len(conversation_state.messages)].type = "ai"
        /\ retval = Some(appended[1])

\* C5: when the similarity search raised in a call (and no language-model call
\* did), get_relevant_context returned "" and the call returns having appended
\* an assistant message.
C5_RetrievalDegradation ==
    (pc = "returned" /\ searchRaised) =>
        /\ ctxGot = Some("")
        /\ Len(appended) = 1

---------------------------------------------------------------------------
(* Claims about the synchronisation *)

\* the hash the tracking file records for a path (NoHash when there is no file)
PersistedHash(p) == IF tracking_file = None THEN NoHash ELSE tracking_file[1].files[p]

\* the vector store holds a chunk of the file p with the content hashing to h
Indexed(p, h) ==
    \E i \in 1..Len(vector_store) :
        /\ vector_store[i].source = Some(FullPath(p))
        /\ calculate_file_hash(vector_store[i].content) = h

\* the paths of a sequence of files
RelPaths(files) == {RelPath(files[i], LocalDir) : i \in 1..Len(files)}

\* the last sync reported no new and no changed file
ReportsNothing ==
    /\ sync_result.new_count = 0
    /\ sync_result.changed_count = 0
    /\ sync_result.updated_files = <<>>

\* C6: after sync_github_knowledge_base has finished (normally or by raising),
\* every hash the tracking file records is the hash of a content that was
\* added to the vector store for that path.
C6_HashOnlyWithIndex ==
    sync_result.called =>
        \A p \in Paths : PersistedHash(p) # NoHash => Indexed(p, PersistedHash(p))

C8_ReportedHashesFresh ==
    sync_result.scanned =>
        /\ \A p \in RelPaths(sync_result.updated_files) :
              /\ tracking_data.files[p] = calculate_file_hash(mirror.files[p])
              /\ PersistedHash(p) = calculate_file_hash(mirror.files[p])
        /\ tracking_data.last_commit = Some(mirror.commit)
        /\ tracking_file # None
        /\ tracking_file[1].last_commit = Some(mirror.commit)

\* C8 witness: a scan reported a changed file
C8_Witness == sync_result.scanned /\ sync_result.changed_count >= 1

\* C9: when the clone / pull fails the sync reports nothing, the tracking file
\* is as it was before the call, and the tracking data is what was loaded
\* from it.
C9_FetchFailureLeavesTracker ==
    (sync_result.called /\ ~sync_result.fetched) =>
        /\ ReportsNothing
        /\ tracking_file = preTracking
        /\ tracking_data = load_tracking_data(preTracking)

\* C9 witness: a pull failed after an earlier sync had recorded a file
C9_Witness ==
    /\ sync_result.called
    /\ ~sync_result.fetched
    /\ mirror.exists
    /\ \E p \in Paths : PersistedHash(p) # NoHash

\* C10: in the touched files a file classified new carries status "new" and a
\* file classified changed carries status "updated".
C10_StatusTags ==
    \A i \in 1..Len(sync_result.processed_files) :
        LET f == sync_result.processed_files[i]
        IN /\ (f.relative_path \in RelPaths(sync_result.new_files) => f.status = "new")
           /\ (f.relative_path \in RelPaths(sync_result.changed_files)
                  => f.status = "updated")

---------------------------------------------------------------------------
(* Claims about the vector store *)

\* C11: after delete_documents_by_source(path) has returned (True, C), the
\* metadata listing holds no entry with that source, it is C entries shorter
\* than before, and the entries of every other source are listed as before,
\* in the same order.
C11_DeleteBySourceEffects ==
    (store_result.op = "delete_by_source" /\ store_result.ok) =>
        LET before == get_all_documents_metadata(store_result.before, store_result.existed)
            after == get_all_documents_metadata(vector_store, vs_path_exists)
        IN /\ \A i \in 1..Len(after) : after[i].source # Some(store_result.source_path)
           /\ Len(after) = Len(before) - store_result.count
           /\ after = SelectSeq(before,
                                LAMBDA m : m.source # Some(store_result.source_path))

\* C11 witness: a deletion removed two chunks of one source and left others
C11_Witness ==
    /\ store_result.op = "delete_by_source"
    /\ store_result.ok
    /\ store_result.count >= 2
    /\ vector_store # <<>>

\* C12: every chunk in the vector store carries a source, whatever builds,
\* uploads, syncs and deletions came before.
C12_ChunksCarrySource ==
    \A i \in 1..Len(vector_store) : vector_store[i].source # None

\* C12 witness: after a build, an upload and a sync, a deletion has left
\* chunks in the store
C12_Witness ==
    /\ store_result.op \in {"delete_by_source", "delete_by_ids"}
    /\ store_result.ok
    /\ Len(vector_store) < Len(store_result.before)
    /\ \E i \in 1..Len(vector_store) : vector_store[i].source[1].dir = DataDir
    /\ sync_result.called
    /\ next_id > MaxIds

---------------------------------------------------------------------------
(* Claims about failures of the language model and about the chat page *)

\* C13: a failure of a language-model call of a turn (the completion of
\* answer_question, the answer completion of generate_response) is caught
\* where it is made, so no process_message call ends by raising.
C13_LLMFailuresCaught == pc # "raised"

\* C14: when process_message raised in a turn of the chat page, the page has
\* appended one fallback assistant message after the user's message, the
\* processing flag is reset, and no text of the exception was displayed.
C14_GenericFallbackOnly ==
    turn_outcome = "failed" =>
        /\ session_messages[Len(session_messages)] = ChatMessage("assistant", FallbackText)
        /\ session_messages[Len(session_messages) - 1].role = "user"
        /\ ~processing
        /\ errors_shown = <<>>

---------------------------------------------------------------------------
(* Claims about the node functions *)

\* C15: after extract_personal_info has parsed a reply, a field that is JSON
\* null, "null", "None" or "none" has left the memory value of its key as it
\* was, and any other field value has replaced it.
C15_NoneMarkersKeepMemory ==
    (node_run.op = "extract" /\ node_run.er.kind = "json") =>
        LET markers == {None, Some("null"), Some("None"), Some("none")}
            after(old, field) == IF field \in markers THEN old ELSE field
        IN /\ node_run.out.memory.name =
                 after(node_in.memory.name, node_run.er.name)
           /\ node_run.out.memory.other_info =
                 after(node_in.memory.other_info, node_run.er.other_info)

\* C16: when the extraction call raises or its reply holds no parseable block,
\* generate_response leaves the memory as it was and still issues the answer
\* call; when that call returns, the assistant message is appended.
C16_ExtractionFailureKeepsTurn ==
    ( /\ node_run.op = "generate"
      /\ ~GenerateReturnsEarly(node_in)
      /\ node_run.er.kind \in {"raise", "nojson", "badjson"} )
    => ( /\ node_run.out.memory = node_in.memory
         /\ \E i \in 1..Len(node_run.calls) : node_run.calls[i] = "answer"
         /\ (~node_run.raised =>
                node_run.out.messages =
                    Append(node_in.messages, AIMessage(node_run.ao.text))) )

\* C16 witness: the extraction reply held no block, a name was in memory, and
\* the answer was appended
C16_Witness ==
    /\ node_run.op = "generate"
    /\ node_run.er.kind = "nojson"
    /\ node_in.memory.name = Some("Alex")
    /\ ~node_run.raised
    /\ Len(node_run.out.messages) = Len(node_in.messages) + 1

\* C17: when the pending question matches the personal-information pattern
\* and the memory holds a name, retrieve_context makes no call (no similarity
\* search, no completion), sets the context to the sentence naming
\* memory['name'], and leaves every other field of the state as it was.
C17_ShortCircuitFrame ==
    ( /\ node_run.op = "retrieve"
      /\ Truthy(node_in.current_question)
      /\ PatternSearch(node_in.current_question[1])
      /\ node_in.memory.name # None )
    => ( /\ ~node_run.raised
         /\ node_run.calls = <<>>
         /\ node_run.out =
               [node_in EXCEPT
                   !.context = Some(SynthesizedContext(node_in.memory.name[1]))] )

\* C17 witness: a question about the name was answered from a memory naming
\* Bob, replacing an earlier context
C17_Witness ==
    /\ node_run.op = "retrieve"
    /\ node_in.current_question = Some("what's my name")
    /\ node_in.memory.name = Some("Bob")
    /\ node_in.context = Some("doc one")
    /\ node_run.out.context = Some(SynthesizedContext("Bob"))

\* C20: when generate_response runs with a pending question and a non-empty
\* context and the answer call returns a reply, it has made one call with the
\* answer prompt, appended one assistant message carrying the reply after the
\* messages it was given, cleared the question and set the completion flag.
C20_GenerateAppendsOnce ==
    ( /\ node_run.op = "generate"
      /\ Truthy(node_in.current_question)
      /\ Truthy(node_in.context)
      /\ ~node_run.raised )
    => ( /\ Cardinality({i \in 1..Len(node_run.calls) : node_run.calls[i] = "answer"}) = 1
         /\ node_run.out.messages = Append(node_in.messages, AIMessage(node_run.ao.text))
         /\ node_run.out.current_question = None
         /\ node_run.out.completed )

\* C20 witness: a reply was appended after a history of three messages
C20_Witness ==
    /\ node_run.op = "generate"
    /\ ~node_run.raised
    /\ Len(node_in.messages) = 3
    /\ Len(node_run.out.messages) = 4
    /\ node_run.out.messages[4].type = "ai"

---------------------------------------------------------------------------
(* Claims about the scan *)

\* C18: a scan classifies every markdown file of the mirror against the
\* tracking data loaded before it: new when its path is not recorded, changed
\* when a different hash is recorded; the returned list holds the new and the
\* changed files, each once, and its length is new_count + changed_count.
C18_ScanClassification ==
    sync_result.scanned =>
        LET td == load_tracking_data(preTracking)
        IN /\ \A p \in Paths :
                LET candidate == IsMarkdown(p) /\ mirror.files[p] # Absent
                    h == calculate_file_hash(mirror.files[p])
                IN /\ (p \in RelPaths(sync_result.new_files))
                        <=> (candidate /\ td.files[p] = NoHash)
                   /\ (p \in RelPaths(sync_result.changed_files))
                        <=> (candidate /\ td.files[p] # NoHash /\ td.files[p] # h)
           /\ RelPaths(sync_result.updated_files) =
                 RelPaths(sync_result.new_files) \cup RelPaths(sync_result.changed_files)
           /\ Len(sync_result.updated_files) = Cardinality(RelPaths(sync_result.updated_files))
           /\ sync_result.new_count + sync_result.changed_count =
                 Len(sync_result.updated_files)

\* C18 witness: a scan found one changed file and one unchanged file
C18_Witness ==
    /\ sync_result.scanned
    /\ sync_result.changed_count = 1
    /\ sync_result.new_count = 0
    /\ Len(sync_result.hashed) = 2

\* C19: a sync that finds the mirror at the recorded last_commit hashes no
\* file, leaves the tracking file and the tracking data as they were, reads
\* no clock, and leaves the vector store as it was.
C19_NoOpAtRecordedRevision ==
    [][ ( /\ upstream' = upstream
          /\ sync_result'.called
          /\ sync_result'.fetched
          /\ mirror'.commit = upstream.commit
          /\ load_tracking_data(tracking_file).last_commit = Some(mirror'.commit) )
        => ( /\ sync_result'.hashed = <<>>
             /\ tracking_file' = tracking_file
             /\ tracking_data' = load_tracking_data(tracking_file)
             /\ timestamps' = timestamps
             /\ vector_store' = vector_store ) ]_vars

\* C19 witness: a sync found the recorded revision, with files tracked and
\* chunks in the store
C19_Witness ==
    /\ sync_result.called
    /\ sync_result.fetched
    /\ ~sync_result.scanned
    /\ tracking_file # None
    /\ tracking_file[1].last_commit = Some(mirror.commit)
    /\ vector_store # <<>>

---------------------------------------------------------------------------
(* Claims about turns that end early *)

\* C21: generate_response given no (or an empty) pending question, or no (or
\* an empty) context, makes neither the extraction call nor the answer call
\* and returns the state with only the completion flag set, so that should_end
\* ends the turn; retrieve_context given no (or an empty) question makes no
\* call either (no similarity search, no completion) and returns the state
\* with only the completion flag set.
C21_EarlyTermination ==
    /\ ( /\ node_run.op = "generate"
         /\ (~Truthy(node_in.current_question) \/ ~Truthy(node_in.context)) )
       => ( /\ node_run.calls = <<>>
            /\ ~node_run.raised
            /\ node_run.out = [node_in EXCEPT !.completed = TRUE]
            /\ should_end(node_run.out) = "end" )
    /\ ( /\ node_run.op = "retrieve"
         /\ ~Truthy(node_in.current_question) )
       => ( /\ node_run.calls = <<>>
            /\ ~node_run.raised
            /\ node_run.out = [node_in EXCEPT !.completed = TRUE] )

\* C21 witness: generate_response was given a question and the empty context,
\* with a name in memory, and ended the turn
C21_Witness ==
    /\ node_run.op = "generate"
    /\ node_in.current_question = Some("My name is Alex")
    /\ node_in.context = Some("")
    /\ node_in.memory.name = Some("Alex")
    /\ node_run.calls = <<>>
    /\ node_run.out.completed

---------------------------------------------------------------------------
(* Claims about the memory across turns *)

\* the memory of the agent: inside a call the memory of the state travelling
\* through the graph, between calls the memory of conversation_state
AgentMemory == IF Idle THEN conversation_state.memory ELSE state.memory

\* C22: over any sequence of process_message calls no key of the memory is
\* ever removed, and the memory changes only in a step of generate_response
\* that goes past its early return, to what extract_personal_info makes of it;
\* the start of a call (append, prune), retrieve_context, the conditional edge
\* and the return of process_message leave it as it is.
C22_MemoryOnlyByExtraction ==
    [][ /\ (AgentMemory.name # None => AgentMemory'.name # None)
        /\ (AgentMemory.other_info # None => AgentMemory'.other_info # None)
        /\ (AgentMemory' # AgentMemory =>
               /\ pc = "generate"
               /\ Truthy(state.current_question)
               /\ Truthy(state.context)
               /\ \E er \in ExtractionOutcomes :
                      AgentMemory' = extract_personal_info(AgentMemory, er)) ]_vars

\* C22 witness: a second call has returned and the memory still holds the
\* name the first call extracted and a further fact
C22_Witness ==
    /\ pc = "returned"
    /\ turns = 2
    /\ firstTurn # None
    /\ firstTurn[1].name = Some("Alex")
    /\ conversation_state.memory.name = Some("Alex")
    /\ conversation_state.memory.other_info # None

---------------------------------------------------------------------------
(* Claims about the retriever *)

\* the separator between two chunk texts: a blank line
BlankLine == "\n\n"

\* C23: get_relevant_context returns the empty string when the search returns
\* no chunk (or raises), and otherwise the texts of the chunks the search
\* returned, in the order of the search, with one blank-line separator between
\* two neighbours and none before the first or after the last text.
C23_ContextJoinsChunks ==
    node_run.op = "context" =>
        LET docs == node_run.so.docs
            n == Len(docs)
        IN /\ (node_run.so.raises \/ n = 0) => node_run.text = ""
           /\ (~node_run.so.raises /\ n = 1) => node_run.text = docs[1]
           /\ (~node_run.so.raises /\ n = 2) =>
                 node_run.text = docs[1] \o BlankLine \o docs[2]
           /\ (~node_run.so.raises /\ n = 3) =>
                 node_run.text = docs[1] \o BlankLine \o docs[2] \o BlankLine \o docs[3]
           /\ n <= 3

\* C23 witness: the search returned three chunks and the context is their
\* texts in that order
C23_Witness ==
    /\ node_run.op = "context"
    /\ node_run.so.docs = <<"doc two", "doc one", "doc three">>
    /\ node_run.text = "doc two\n\ndoc one\n\ndoc three"

---------------------------------------------------------------------------
(* Claims about the tracking file *)

\* the record a sync that runs to its end leaves in the tracking file, given
\* the file before it and the mirror after its clone / pull
PostSyncRecord(file, mir, now) ==
    sync_repository(load_tracking_data(file), file, mir, now).tracking_data

\* C24: after a sync that was cut off at any point, the record a new
\* GitHubSyncManager loads from the tracking file is the record that was
\* loaded before that sync or the record the sync would have left had it run
\* to its end.
C24_AtomicPersistence ==
    sync_result.interrupted # "no" =>
        load_tracking_data(tracking_file) \in
            { load_tracking_data(preTracking),
              PostSyncRecord(preTracking, mirror, timestamps) }

---------------------------------------------------------------------------
(* Claims about repositories and branches *)

\* the mirror directory of a repository holds a clone of that repository
OwnMirror(repo_url) ==
    /\ mirrors[local_dir(repo_url)] # None
    /\ mirrors[local_dir(repo_url)][1].origin = repo_url

\* C25: after a sync requested for a branch of a repository whose clone /
\* pull succeeded (the mirror directory holding a clone of that repository),
\* the mirror is at the head that branch had at the sync, and the tracking
\* file records that revision as last_commit, whether the sync cloned or
\* pulled.
C25_MirrorAtRequestedBranch ==
    (repo_sync.called /\ repo_sync.fetched /\ OwnMirror(repo_sync.repo_url)) =>
        LET mir == mirrors[local_dir(repo_sync.repo_url)]
            file == tracking_files[tracking_path(repo_sync.repo_url)]
        IN /\ Some(mir[1].commit) = repo_sync.head
           /\ file # None
           /\ file[1].last_commit = repo_sync.head

\* C26: a sync of a repository URL reads a tracking file only when it records
\* that URL, leaves the file of its path recording that URL, and works on a
\* mirror directory that holds a clone of that URL (so no tracking file and
\* no mirror directory serves two URLs).
C26_OneRecordPerSource ==
    repo_sync.called =>
        LET file == tracking_files[tracking_path(repo_sync.repo_url)]
            mir == mirrors[local_dir(repo_sync.repo_url)]
        IN /\ (repo_sync.loaded # None =>
                  repo_sync.loaded[1].repo_url = repo_sync.repo_url)
           /\ (file # None => file[1].repo_url = repo_sync.repo_url)
           /\ (mir # None => mir[1].origin = repo_sync.repo_url)

---------------------------------------------------------------------------
(* Claims about the vector store after a sync *)

\* C27: after a sync_github_knowledge_base call that fetched, loaded every
\* file it reported and did not raise, every chunk the vector store holds for
\* a file of the repository carries the current content of that file: no
\* chunk of a previous content and no chunk of a removed file is left.
C27_StoreMatchesRepository ==
    ( /\ sync_result.called
      /\ sync_result.fetched
      /\ ~sync_result.raised
      /\ Len(sync_result.processed_files) = Len(sync_result.updated_files) )
    => \A i \in 1..Len(vector_store), p \in Paths :
           vector_store[i].source = Some(FullPath(p)) =>
               /\ mirror.files[p] # Absent
               /\ vector_store[i].content = mirror.files[p]

---------------------------------------------------------------------------
(* Claims about the deletion by identifiers *)

---------------------------------------------------------------------------
(* Claims about the agent's state behind the chat page *)

\* the turn of the chat page before the one in progress ended with the
\* fallback message: its process_message call raised
PrevTurnFailed ==
    /\ Len(session_messages) >= 3
    /\ session_messages[Len(session_messages) - 1] = ChatMessage("assistant", FallbackText)

\* the messages of the agent: inside a call those of the state travelling
\* through the graph, between calls those of conversation_state
AgentMessages == IF Idle THEN conversation_state.messages ELSE state.messages

\* C29: after a process_message call has raised, the agent's state is the
\* state prepared for that turn: its last message is the user's message of
\* the turn (no assistant reply follows it), the question is still pending and
\* the completion flag is clear.  The next call works on a history in which
\* that user message comes right before the new one, and its nodes run.
C29_NoRollbackAfterRaise ==
    /\ pc = "raised" =>
          /\ conversation_state.messages # <<>>
          /\ conversation_state.messages[Len(conversation_state.messages)] =
                HumanMessage(userText)
          /\ conversation_state.current_question = Some(userText)
          /\ ~conversation_state.completed
    /\ (app_pc = "called" /\ PrevTurnFailed) =>
          /\ \E i \in 1..(Len(AgentMessages) - 1) :
                /\ AgentMessages[i] =
                      HumanMessage(session_messages[Len(session_messages) - 2].content)
                /\ AgentMessages[i + 1] = HumanMessage(session_question)
          /\ (pc \in {"retrieve", "generate"} => ENABLED GraphStep)

\* C29 witness: the call after a call that raised has returned an answer
C29_Witness ==
    /\ app_pc = "called"
    /\ PrevTurnFailed
    /\ pc = "returned"
    /\ retval = Some("Nice to meet you!")
    /\ Len(conversation_state.messages) = 3

\* C30: the Clear Conversation button empties the displayed history and
\* clears the thinking flag, and leaves the agent's state (messages, memory)
\* and the rest of the session as they were; the call of the next turn then
\* works on the agent's stored messages, with the new user message appended,
\* and on its stored memory.
C30_ClearKeepsAgent ==
    [][ /\ (turn_outcome' = "cleared" =>
               /\ session_messages' = <<>>
               /\ thinking' = FALSE
               /\ conversation_state' = conversation_state
               /\ processing' = processing
               /\ session_question' = session_question)
        /\ ((app_pc = "thinking" /\ app_pc' = "called") =>
               /\ state'.messages =
                     prune_messages(Append(conversation_state.messages,
                                           HumanMessage(session_question)), MaxMessages)
               /\ state'.memory = conversation_state.memory) ]_vars

\* C30 witness: in the first turn after a clear the generate node works on
\* the messages of the turn before the clear and on the name it stored
C30_Witness ==
    /\ pc = "generate"
    /\ Len(session_messages) = 1
    /\ Len(state.messages) = 3
    /\ state.messages[1] = HumanMessage("My name is Alex")
    /\ state.memory.name = Some("Alex")
    /\ ~GenerateReturnsEarly(state)
====
